---------------------------- MODULE Spec2Model ----------------------------
(***************************************************************************)
(* Model of the compliance evaluation engine of ai_building_plan_extraction *)
(*   scripts/check_component_compliance.py          retrieval, relevance,   *)
(*                                                  evaluators, aggregator  *)
(*   scripts/generate_enhanced_compliance_report.py filter, dedup, summary  *)
(*   compliCheckV2.py                               the four-step pipeline  *)
(*   backend/main.py                                POST /process and its   *)
(*                                                  background task         *)
(*                                                                         *)
(* Conventions                                                             *)
(*   - A Python value of type Any (a measured attribute, rule.value, a     *)
(*     candidate score) is a record [k, v]: k is its Python kind           *)
(*     ("none", "num", "numstr" for a string float() accepts, "str" for a  *)
(*     string float() rejects) and v its number.                           *)
(*   - Lengths, areas and distances are counted in tenths of a unit        *)
(*     (35 is 3.5); confidences and scores in ten-thousandths (8500 is     *)
(*     0.85), so that rounding to three decimals is a real conversion.     *)
(*   - A free text (rule.requirement, rule.attribute) is the set of the    *)
(*     keywords it contains: the code only ever tests containment.         *)
(*   - A text field of a JSON component is a string; Null is JSON null     *)
(*     and Absent a key that is not there.                                 *)
(***************************************************************************)
EXTENDS Integers, Sequences, FiniteSets, TLC

VARIABLES
    call,         \* SpecEval: the evaluator call made (type, component, rule, candidate)
    result,       \* SpecEval: what the call produced
    run,          \* Spec: position of main ("start", "fatal", "running", "returned", "raised", "reported")
    env,          \* Spec: the environment variables that are set
    clients,      \* Spec: which optional clients main() obtained
    left,         \* Spec: components of the document not yet visited
    evaluations,  \* Spec: the evaluations list of process_components
    embed_cache,  \* Spec: query texts whose embedding is cached
    last,         \* Spec: what the last loop body did (for the per-component claims)
    report,       \* Spec: the document build_compliance_report returned
    calls,        \* SpecCalls: history of the remote calls of the run
    rpc,          \* SpecReport: position of build_enhanced_report
    components_data, \* SpecReport: the components document (lot_info per sheet)
    compliance_data, \* SpecReport: compliance document as build_enhanced_report holds it
    retained,     \* SpecReport: evaluations after filter_and_deduplicate_evaluations
    v2,           \* SpecV2: the state of run_complicheck (compliCheckV2.py)
    precheck,     \* SpecBackend: a pre-check of the in-memory store (backend/main.py)
    task          \* SpecBackend: the background task process_files of the pre-check

evalVars == <<call, result>>
pipeVars == <<run, env, clients, left, evaluations, embed_cache, last, report, calls>>
repVars  == <<rpc, components_data, compliance_data, retained>>
v2Vars   == <<v2>>
apiVars  == <<precheck, task>>
vars     == <<evalVars, pipeVars, repVars, v2Vars, apiVars>>

---------------------------------------------------------------------------
(* Python values *)

Null   == "<null>"
Absent == "<absent>"

None      == [k |-> "none",   v |-> 0]
Num(n)    == [k |-> "num",    v |-> n]
NumStr(n) == [k |-> "numstr", v |-> n]
Str       == [k |-> "str",    v |-> 0]

\* bool(x): None and 0 are falsy, every non-empty string is truthy ("0" too)
Truthy(x) == CASE x.k = "none" -> FALSE
               [] x.k = "num"  -> x.v # 0
               [] OTHER        -> TRUE

\* float(x) succeeds on numbers and numeric strings, raises otherwise
FloatOk(x) == x.k \in {"num", "numstr"}

\* actual >= float(expected) raises TypeError unless actual is a number
GeOk(a) == a.k = "num"

\* dict.get(key, default): the default only replaces a key that is absent
Get(field, default) == IF field = Absent THEN default ELSE field

\* str.upper() on the vocabulary of the model
Upper(s) == CASE s = "bedroom" -> "BEDROOM"
              [] s = "kitchen" -> "KITCHEN"
              [] s = "front"   -> "FRONT"
              [] s = "rear"    -> "REAR"
              [] s = "unknown" -> "UNKNOWN"
              [] OTHER         -> s

\* `s.upper() in text` for a text given as the set of keywords it contains
\* (the empty string is contained in every text)
Contains(text, s) == s = "" \/ Upper(s) \in text


---------------------------------------------------------------------------
(* Data model: RuleDetail, RuleCandidate, ComplianceEvaluation *)

\* RuleDetail as fetch_rules_by_ids builds it from a row of the rule store
RuleDetail(rule_id, requirement, topic, attribute, value, zones) ==
    [rule_id |-> rule_id, requirement |-> requirement, topic |-> topic,
     attribute |-> attribute, value |-> value, zones |-> zones]

\* RuleCandidate(rule_id, source, score=None)
RuleCandidate(rule_id, source, score) ==
    [rule_id |-> rule_id, source |-> source, score |-> score]

\* Type defaults of `candidate.score or <default>`, in ten-thousandths
DefaultConfRoom    == 5000
DefaultConfSetback == 7000
DefaultConfOpening == 6000
DefaultConfParking == 6000
DefaultConfLot     == 6000
DefaultConfWater   == 5000

\* `candidate.score or default`: a score of None or 0.0 is falsy
ScoreOr(candidate, default) ==
    IF Truthy(candidate.score) THEN candidate.score.v ELSE default

\* The ComplianceEvaluation every evaluator returns at its end
ComplianceEvaluation(ctype, cid, rule, candidate, actual, status, notes, default) ==
    [component_id   |-> cid,
     component_type |-> ctype,
     rule_id        |-> rule.rule_id,
     requirement    |-> rule.requirement,
     topic          |-> rule.topic,
     expected_value |-> rule.value,
     actual_value   |-> actual,
     status         |-> status,
     confidence     |-> ScoreOr(candidate, default),
     notes          |-> notes,
     zones          |-> rule.zones,
     source         |-> candidate.source]

NoEvaluation == [component_id |-> <<>>, component_type |-> "", rule_id |-> "",
                 requirement |-> {}, topic |-> Null, expected_value |-> None,
                 actual_value |-> None, status |-> "", confidence |-> 0,
                 notes |-> <<>>, zones |-> <<>>, source |-> ""]

\* What a call of an evaluator produces: an evaluation, None, or an exception
Returned(ev) == [kind |-> "eval",  ev |-> ev]
ReturnedNone == [kind |-> "none",  ev |-> NoEvaluation]
Raised       == [kind |-> "raise", ev |-> NoEvaluation]

\* A variant of the try block whose except branch sets a status of its own
TryCompareError(actual, expected) ==
    IF FloatOk(expected) /\ GeOk(actual)
    THEN IF actual.v >= expected.v THEN "PASS" ELSE "FAIL"
    ELSE "ERROR"

\* The try block shared by the evaluators:
\*     try:    minimum = float(expected_value)
\*             status = "PASS" if actual >= minimum else "FAIL"
\*     except (ValueError, TypeError): <parse note>, status stays REVIEW
\* float() rejects a non-numeric value; >= rejects an actual that is no number.
TryCompare(actual, expected) ==
    IF FloatOk(expected) /\ GeOk(actual)
    THEN IF actual.v >= expected.v THEN "PASS" ELSE "FAIL"
    ELSE "REVIEW"

\* The note the try block appends
CompareNote(actual, expected) ==
    IF FloatOk(expected) /\ GeOk(actual)
    THEN IF actual.v >= expected.v THEN "meets minimum" ELSE "below minimum"
    ELSE "could not parse"

\* Python `a or b`
PyOr(a, b) == IF Truthy(a) THEN a ELSE b

---------------------------------------------------------------------------
(* Component evaluators *)

evaluate_room_component(component, rule, candidate) ==
    LET room_type   == Get(component.room_type, "")
        area        == component.area
        requirement == rule.requirement
        attribute   == rule.attribute
        expected    == rule.value
        branch      == IF "area" \in attribute \/ "size" \in attribute THEN "area"
                       ELSE IF "dimension" \in attribute \/ "width" \in attribute
                            THEN "dimension" ELSE "other"
        actual      == CASE branch = "area"      -> area
                         [] branch = "dimension" -> PyOr(component.width, component.length)
                         [] OTHER                -> None
        compared    == branch # "other" /\ Truthy(actual) /\ Truthy(expected)
        status      == IF compared THEN TryCompare(actual, expected) ELSE "REVIEW"
        notes       == IF compared THEN <<CompareNote(actual, expected)>>
                       ELSE IF branch = "other" THEN <<"attribute not measurable">>
                       ELSE <<>>
    IN  IF room_type = Null THEN Raised           \* None.upper()
        ELSE IF ~Contains(requirement, room_type) /\ "BEDROOM" \notin requirement
        THEN ReturnedNone
        ELSE Returned(ComplianceEvaluation("room", <<"room", Get(component.name, "unknown")>>,
                          rule, candidate, actual, status, notes, DefaultConfRoom))

evaluate_setback_component(component, rule, candidate, is_geometric) ==
    LET direction   == Get(component.direction, "unknown")
        distance    == IF is_geometric THEN component.avg_distance ELSE component.distance
        requirement == rule.requirement
        expected    == rule.value
        compared    == distance.k # "none" /\ Truthy(expected)
        status      == IF compared THEN TryCompare(distance, expected) ELSE "REVIEW"
        notes       == IF compared THEN <<CompareNote(distance, expected)>>
                       ELSE <<"distance or requirement value missing">>
        source_type == IF is_geometric THEN "geometric_setback" ELSE "annotated_setback"
    IN  IF direction = Null THEN Raised           \* None.upper()
        ELSE IF /\ Upper(direction) = "FRONT"
                /\ "FRONT" \notin requirement
                /\ "SIDE" \notin requirement /\ "REAR" \notin requirement
        THEN ReturnedNone
        ELSE Returned(ComplianceEvaluation(source_type, <<"setback", direction>>,
                          rule, candidate, distance, status, notes, DefaultConfSetback))

evaluate_opening_component(component, rule, candidate) ==
    LET opening_type == Get(component.opening_type, "")
        width        == component.width
        is_egress    == component.is_egress
        requirement  == rule.requirement
        expected     == rule.value
        compared     == width.k # "none" /\ Truthy(expected)
        status       == IF compared THEN TryCompare(width, expected) ELSE "REVIEW"
        notes        == IF compared THEN <<CompareNote(width, expected)>> ELSE <<>>
    IN  IF opening_type = "door" /\ "DOOR" \notin requirement THEN ReturnedNone
        ELSE IF is_egress /\ "EGRESS" \notin requirement /\ "EXIT" \notin requirement
        THEN ReturnedNone
        \* component.get('location', ['0','0'])[0]: null is not subscriptable,
        \* an empty list has no element 0
        ELSE IF component.location \in {Null, "[]"} THEN Raised
        ELSE Returned(ComplianceEvaluation("opening",
                          <<"opening", opening_type, Get(component.location, "0")>>,
                          rule, candidate, width, status, notes, DefaultConfOpening))

evaluate_parking_component(component, rule, candidate) ==
    LET width       == component.width
        length      == component.length
        accessible  == component.accessible
        requirement == rule.requirement
        attribute   == rule.attribute
        expected    == rule.value
        branch      == IF "width" \in attribute /\ width.k # "none" /\ Truthy(expected)
                       THEN "width"
                       ELSE IF "length" \in attribute /\ length.k # "none" /\ Truthy(expected)
                            THEN "length" ELSE "none"
        measured    == IF branch = "width" THEN width ELSE length
        status      == IF branch # "none" THEN TryCompare(measured, expected) ELSE "REVIEW"
        notes       == IF branch # "none" THEN <<CompareNote(measured, expected)>> ELSE <<>>
    IN  IF accessible /\ "ACCESSIBLE" \notin requirement /\ "ADA" \notin requirement
        THEN ReturnedNone
        ELSE Returned(ComplianceEvaluation("parking",
                          <<"parking", Get(component.space_type, "unknown")>>,
                          rule, candidate, [width |-> width, length |-> length],
                          status, notes, DefaultConfParking))

evaluate_lot_info_component(component, rule, candidate) ==
    LET lot_number  == Get(component.lot_number, Null)
        lot_area    == component.lot_area
        requirement == rule.requirement
        attribute   == rule.attribute
        expected    == rule.value
        applies     == "area" \in attribute \/ "SIZE" \in requirement
        compared    == applies /\ Truthy(lot_area) /\ Truthy(expected)
        status      == IF compared THEN TryCompare(lot_area, expected) ELSE "REVIEW"
        notes       == IF compared THEN <<CompareNote(lot_area, expected)>>
                       ELSE IF applies THEN <<"lot area not specified">>
                       ELSE <<>>
    IN  \* len(component.get("boundary_dimensions", [])): null has no len()
        IF component.boundary_dimensions = Null THEN Raised
        ELSE Returned(ComplianceEvaluation("lot_info",
                          <<"lot", IF lot_number \in {Null, ""} THEN "unknown" ELSE lot_number>>,
                          rule, candidate, [area |-> lot_area], status, notes,
                          DefaultConfLot))

\* A variant of the water feature evaluator that treats a rule value as met,
\* the way the measuring evaluators reach a verdict
evaluate_water_feature_measured(component, rule, candidate) ==
    LET feature_type == Get(component.feature_type, "")
        feature_name == Get(component.name, "")
        requirement  == rule.requirement
        status       == IF Truthy(rule.value) THEN "PASS" ELSE "REVIEW"
        notes        == <<"identified on plan", "should be verified">>
    IN  IF "CREEK" \in requirement /\ feature_type # "creek" THEN ReturnedNone
        ELSE IF "RIVER" \in requirement /\ feature_type # "river" THEN ReturnedNone
        ELSE IF feature_type = Null \/ feature_name = Null THEN Raised
        ELSE Returned(ComplianceEvaluation("water_feature",
                          <<"water", feature_type, feature_name>>, rule, candidate,
                          [type |-> feature_type, name |-> feature_name],
                          status, notes, DefaultConfWater))

evaluate_water_feature_component(component, rule, candidate) ==
    LET feature_type == Get(component.feature_type, "")
        feature_name == Get(component.name, "")
        requirement  == rule.requirement
        status       == "REVIEW"
        notes        == <<"identified on plan", "should be verified">>
    IN  IF "CREEK" \in requirement /\ feature_type # "creek" THEN ReturnedNone
        ELSE IF "RIVER" \in requirement /\ feature_type # "river" THEN ReturnedNone
        \* feature_type.title() and feature_name.replace() on null
        ELSE IF feature_type = Null \/ feature_name = Null THEN Raised
        ELSE Returned(ComplianceEvaluation("water_feature",
                          <<"water", feature_type, feature_name>>, rule, candidate,
                          [type |-> feature_type, name |-> feature_name],
                          status, notes, DefaultConfWater))

---------------------------------------------------------------------------
(* SpecEval: one call of one evaluator, on inputs drawn from bounded sets *)

MeasuredValues == {None, Num(0), Num(35), Num(50), Str}
ExpectedValues == {None, Num(0), Num(50), NumStr(50), Str}

\* Candidates as the two channels build them: a semantic candidate carries
\* float(match.get("score", 0.0)), whatever the index returned (0.8504, 0.0,
\* 1.2, -0.1); a lexical candidate carries no score.
SemanticScores == {0, 8504, 12000, -1000}
CandidatePool ==
    {RuleCandidate("R1", "pinecone", Num(s)) : s \in SemanticScores}
        \cup {RuleCandidate("R1", "neo4j_keyword", None)}

\* A rule of the store with the given requirement, attribute and value
RuleWith(requirement, attribute, value) ==
    RuleDetail("R1", requirement, "topic", attribute, value, <<"Residential">>)

RoomInputs ==
    [name : {"Bed 1"}, room_type : {"bedroom", "kitchen", Null, Absent},
     area : MeasuredValues, width : {None, Num(35)}, length : {None, Num(50)}]
SetbackInputs ==
    [direction : {"front", "rear", Null, Absent}, measured : MeasuredValues]
OpeningInputs ==
    [opening_type : {"door", "window"}, width : MeasuredValues, is_egress : BOOLEAN,
     location : {"12", "[]", Null, Absent}]
ParkingInputs ==
    [space_type : {"standard"}, width : MeasuredValues, length : {None, Num(50), Str},
     accessible : BOOLEAN]
LotInputs ==
    [lot_number : {"7", Absent}, lot_area : MeasuredValues,
     boundary_dimensions : {"[..]", Null, Absent}]
WaterInputs ==
    [feature_type : {"creek", "river", "pond", Null}, name : {"Dry Creek", Null, Absent}]

EvalIdle == call = [fn |-> "idle"] /\ result = ReturnedNone

Called(fn, component, rule, candidate, res) ==
    /\ call' = [fn |-> fn, component |-> component, rule |-> rule, candidate |-> candidate]
    /\ result' = res

EvalRoom ==
    /\ call.fn = "idle"
    /\ \E component \in RoomInputs, requirement \in SUBSET {"BEDROOM", "KITCHEN"},
       attribute \in {{}, {"area"}, {"size"}, {"width"}, {"dimension"}},
       value \in ExpectedValues, candidate \in CandidatePool :
        LET rule == RuleWith(requirement, attribute, value)
        IN  Called("room", component, rule, candidate,
                   evaluate_room_component(component, rule, candidate))

EvalSetback ==
    /\ call.fn = "idle"
    /\ \E c \in SetbackInputs, is_geometric \in BOOLEAN,
       requirement \in SUBSET {"FRONT", "SIDE", "REAR"},
       value \in ExpectedValues, candidate \in CandidatePool :
        LET component == [direction    |-> c.direction,
                          distance     |-> IF is_geometric THEN None ELSE c.measured,
                          avg_distance |-> IF is_geometric THEN c.measured ELSE None]
            rule == RuleWith(requirement, {}, value)
        IN  Called(IF is_geometric THEN "geometric_setback" ELSE "setback",
                   component, rule, candidate,
                   evaluate_setback_component(component, rule, candidate, is_geometric))

EvalOpening ==
    /\ call.fn = "idle"
    /\ \E component \in OpeningInputs, requirement \in SUBSET {"DOOR", "EGRESS", "EXIT"},
       value \in ExpectedValues, candidate \in CandidatePool :
        LET rule == RuleWith(requirement, {"width"}, value)
        IN  Called("opening", component, rule, candidate,
                   evaluate_opening_component(component, rule, candidate))

EvalParking ==
    /\ call.fn = "idle"
    /\ \E component \in ParkingInputs, requirement \in SUBSET {"ACCESSIBLE", "ADA"},
       attribute \in {{}, {"width"}, {"length"}, {"area"}, {"width", "length"}},
       value \in ExpectedValues, candidate \in CandidatePool :
        LET rule == RuleWith(requirement, attribute, value)
        IN  Called("parking", component, rule, candidate,
                   evaluate_parking_component(component, rule, candidate))

EvalLotInfo ==
    /\ call.fn = "idle"
    /\ \E component \in LotInputs, requirement \in SUBSET {"SIZE"},
       attribute \in {{}, {"area"}, {"width"}},
       value \in ExpectedValues, candidate \in CandidatePool :
        LET rule == RuleWith(requirement, attribute, value)
        IN  Called("lot_info", component, rule, candidate,
                   evaluate_lot_info_component(component, rule, candidate))

EvalWaterFeature ==
    /\ call.fn = "idle"
    /\ \E component \in WaterInputs, requirement \in SUBSET {"CREEK", "RIVER"},
       value \in {None, Num(50)}, candidate \in CandidatePool :
        LET rule == RuleWith(requirement, {}, value)
        IN  Called("water_feature", component, rule, candidate,
                   evaluate_water_feature_component(component, rule, candidate))

---------------------------------------------------------------------------
(* Retrieval: embedding cache, similarity index, keyword search, rule lookup *)

\* --top-k, default 2
TopK == 2

\* Number of components of the input document, at most
MaxComponents == 2

SeqsUpTo(S, n) == UNION {[1..k -> S] : k \in 0..n}

\* The rule store (Neo4j): the rules a lookup by id or by keyword can return.
\* R1 is a room-size rule with the numeric string "100.0"; R2 a front-setback
\* rule without a topic whose value is prose float() rejects.
RuleStore ==
    {RuleDetail("R1", {"BEDROOM"}, "room size", {"area"}, NumStr(1000), <<"Residential">>),
     RuleDetail("R2", {"FRONT"}, Null, {}, Str, <<>>)}
StoreIds == {r.rule_id : r \in RuleStore}
StoredRule(id) == CHOOSE r \in RuleStore : r.rule_id = id

\* What the collaborators may answer
\*   similarity index: an error, or up to top_k matches (id, score); the index may
\*   hold several vectors of one rule and ids the rule store no longer has (R9),
\*   and its metric decides the range of its scores (1.2 under a dot product)
\*   keyword search: an error, or up to `limit` DISTINCT rule ids of the store
IndexMatches  == {[id |-> "R1", score |-> 12000], [id |-> "R9", score |-> 8504]}
IndexOutcomes == {[ok |-> FALSE, matches |-> <<>>]}
                    \cup {[ok |-> TRUE, matches |-> m] : m \in SeqsUpTo(IndexMatches, TopK)}
StoreOutcomes == {[ok |-> FALSE, rows |-> <<>>]}
                    \cup {[ok |-> TRUE, rows |-> r] :
                            r \in {<<>>, <<"R1">>, <<"R2">>, <<"R1", "R2">>}}
CallOutcomes  == {"ok", "error"}
OracleOutcomes == {"relevant", "not relevant", "error"}

\* `if p`: a part that is absent, null or empty adds nothing to the query text
Part(field) == IF field \in {Absent, Null} THEN "" ELSE field

\* query_text: the truthy parts of [component_type, name, type-specific part]
QueryText(component_type, component) ==
    CASE component_type = "room" ->
            <<"room", Part(component.name), component.area>>
      [] component_type = "setback" ->
            <<"setback", Part(component.direction)>>
      [] component_type = "water_feature" ->
            <<"water_feature", Part(component.name)>>
      [] OTHER -> <<component_type>>

\* embed_text: None without a client; the cached vector if the key is cached;
\* else one call of the embedding generator, cached only when it succeeds
embed_text(openai_client, text, cache, outcome) ==
    IF ~openai_client THEN [embedding |-> FALSE, cache |-> cache, called |-> FALSE]
    ELSE IF text \in cache THEN [embedding |-> TRUE, cache |-> cache, called |-> FALSE]
    ELSE IF outcome = "ok"
         THEN [embedding |-> TRUE, cache |-> cache \cup {text}, called |-> TRUE]
         ELSE [embedding |-> FALSE, cache |-> cache, called |-> TRUE]

\* The candidates parsed from the matches of the index
ParseMatches(matches) ==
    [i \in DOMAIN matches |->
        RuleCandidate(matches[i].id, "pinecone", Num(matches[i].score))]

\* query_pinecone_for_component: [] without a client, without an embedding, and
\* when the index query raises; else the parsed matches (`called`: whether
\* embed_text called the embedding generator)
query_pinecone_for_component(component_type, component, pinecone_client, openai_client, cache, embed, index) ==
    LET e == embed_text(openai_client, QueryText(component_type, component), cache, embed)
    IN  IF ~pinecone_client \/ ~openai_client
        THEN [candidates |-> <<>>, cache |-> cache, down |-> TRUE, called |-> FALSE]
        ELSE IF ~e.embedding
        THEN [candidates |-> <<>>, cache |-> e.cache, down |-> TRUE, called |-> e.called]
        ELSE IF ~index.ok
        THEN [candidates |-> <<>>, cache |-> e.cache, down |-> TRUE, called |-> e.called]
        ELSE [candidates |-> ParseMatches(index.matches), cache |-> e.cache, down |-> FALSE,
              called |-> e.called]

\* The component-specific keywords of each loop of process_components;
\* search_rules_by_keywords calls kw.upper() on each, which raises on null
Keywords(component_type, component) ==
    CASE component_type = "room" ->
            {Get(component.room_type, ""), Get(component.name, "")}
      [] component_type = "setback" ->
            {"setback", Get(component.direction, "")}
      [] component_type = "opening" ->
            {Get(component.opening_type, ""), IF component.is_egress THEN "egress" ELSE ""}
      [] component_type = "parking" ->
            {"parking", Get(component.space_type, ""),
             IF component.accessible THEN "accessible" ELSE ""}
      [] component_type = "lot_info" ->
            {"lot", "site", "parcel", "area", "minimum lot size"}
      [] OTHER ->
            {"water", "creek", "river", "stream", "setback", "riparian", "environmental"}

\* search_rules_by_keywords: no try/except around kw.upper() or session.run
search_rules_by_keywords(component_type, keywords, store) ==
    IF Null \in keywords \/ ~store.ok
    THEN [raised |-> TRUE,  rule_ids |-> <<>>]
    ELSE [raised |-> FALSE, rule_ids |-> store.rows]

\* fetch_rules_by_ids: the details of the ids the store has; no try/except
fetch_rules_by_ids(rule_ids, outcome) ==
    IF outcome = "error"
    THEN [raised |-> TRUE,  rules |-> {}]
    ELSE [raised |-> FALSE, rules |-> rule_ids \cap StoreIds]

\* What the chat completion of check_rule_relevance can do: raise ("error"),
\* answer a JSON object whose "relevant" is true or false, a JSON object without
\* that key ("no verdict"), braces json.loads rejects ("malformed"), a message
\* without content ("no content": None.strip()), or prose without braces
OracleReplies == OracleOutcomes \cup {"no verdict", "malformed", "no content",
                                     "text relevant", "text not relevant", "text other"}

\* The replies whose call or handling raises inside the try block
RaisingReplies == {"error", "malformed", "no content"}

\* A variant of check_rule_relevance whose except branch rejects the candidate
check_rule_relevance_strict(openai_client, oracle) ==
    IF ~openai_client
    THEN [relevant |-> TRUE, confidence |-> 5000, reasoning |-> "LLM unavailable"]
    ELSE IF oracle \in RaisingReplies
    THEN [relevant |-> FALSE, confidence |-> 3000, reasoning |-> "LLM error"]
    ELSE [relevant |-> oracle \in {"relevant", "text relevant"},
          confidence |-> 5000, reasoning |-> "reply"]

\* check_rule_relevance: (is_relevant, confidence, reasoning). A JSON reply is
\* read with result.get("relevant", False); prose is relevant when it holds
\* "relevant" and not "not relevant". The confidence of a reply is taken as 0.5
\* (its default): no caller reads it.
check_rule_relevance(openai_client, oracle) ==
    IF ~openai_client
    THEN [relevant |-> TRUE, confidence |-> 5000, reasoning |-> "LLM unavailable"]
    ELSE IF oracle \in RaisingReplies
    THEN [relevant |-> TRUE, confidence |-> 3000, reasoning |-> "LLM error"]
    ELSE [relevant |-> oracle \in {"relevant", "text relevant"},
          confidence |-> 5000, reasoning |-> "reply"]

\* for rid in neo4j_rules: if rid not in {c.rule_id for c in candidates}: append
RECURSIVE MergeLexical(_, _)
MergeLexical(candidates, rule_ids) ==
    IF rule_ids = <<>> THEN candidates
    ELSE LET rid == Head(rule_ids)
         IN  MergeLexical(
                 IF rid \in {candidates[i].rule_id : i \in DOMAIN candidates}
                 THEN candidates
                 ELSE Append(candidates, RuleCandidate(rid, "neo4j_keyword", None)),
                 Tail(rule_ids))

---------------------------------------------------------------------------
(* SpecEval: one call of check_rule_relevance, one retrieval for a component *)

EvalRelevance ==
    /\ call.fn = "idle"
    /\ \E openai_client \in BOOLEAN, oracle \in OracleReplies :
        /\ call' = [fn |-> "check_rule_relevance", openai_client |-> openai_client,
                    oracle |-> oracle]
        /\ result' = [kind |-> "verdict", ev |-> NoEvaluation,
                      verdict |-> check_rule_relevance(openai_client, oracle)]

\* The head of a loop body of process_components: candidates = []; the semantic
\* candidates `if pinecone_client`; then the lexical ids not yet in the list
RetrieveCandidates(component_type, component, pinecone_client, openai_client, index, store) ==
    LET semantic ==
            IF pinecone_client
            THEN query_pinecone_for_component(component_type, component, pinecone_client,
                                              openai_client, {}, "ok", index).candidates
            ELSE <<>>
        lexical == search_rules_by_keywords(component_type,
                                            Keywords(component_type, component), store)
    IN  IF lexical.raised
        THEN [kind |-> "raise", ev |-> NoEvaluation, candidates |-> <<>>]
        ELSE [kind |-> "candidates", ev |-> NoEvaluation,
              candidates |-> MergeLexical(semantic, lexical.rule_ids)]

EvalRetrieval ==
    /\ call.fn = "idle"
    /\ \E pinecone_client \in BOOLEAN, openai_client \in BOOLEAN,
          index \in IndexOutcomes, store \in StoreOutcomes :
        /\ call' = [fn |-> "retrieve", pinecone_client |-> pinecone_client,
                    openai_client |-> openai_client, index |-> index, store |-> store]
        /\ result' = RetrieveCandidates("room",
                         [name |-> "Bed 1", room_type |-> "bedroom", area |-> Num(1200)],
                         pinecone_client, openai_client, index, store)

---------------------------------------------------------------------------
(* main: the connections *)

\* The environment variables main() reads
Neo4jVars == {"NEO4J_URI", "NEO4J_USER", "NEO4J_PASSWORD"}
EnvVars   == Neo4jVars \cup {"PINECONE_API_KEY", "OPENAI_API_KEY"}

\* A variant of get_neo4j_driver that builds the driver from whatever is set
get_neo4j_driver_unchecked(environ) == [raised |-> FALSE]

\* get_neo4j_driver: EnvironmentError when one of the three variables is
\* missing (or empty), else the driver
get_neo4j_driver(environ) == [raised |-> ~(Neo4jVars \subseteq environ)]

\* get_pinecone_client, get_openai_client: None without the key
get_pinecone_client(environ) == "PINECONE_API_KEY" \in environ
get_openai_client(environ)   == "OPENAI_API_KEY" \in environ

\* A variant in which the cache outlives the call of process_components
KeptEmbedCache == embed_cache

\* process_components: embed_cache = {}
NewEmbedCache == {}

\* main(), once the components document is loaded: driver = get_neo4j_driver();
\* pinecone_client = ...; openai_client = ...; then process_components is
\* called and starts with evaluations = [] and embed_cache = {}
ConnectDatabases ==
    /\ run = "start"
    /\ IF get_neo4j_driver(env).raised
       THEN /\ run' = "fatal"
            /\ UNCHANGED <<clients, evaluations, embed_cache>>
       ELSE /\ run' = "running"
            /\ clients' = [pinecone |-> get_pinecone_client(env),
                           openai   |-> get_openai_client(env)]
            /\ evaluations' = <<>>
            /\ embed_cache' = NewEmbedCache
    /\ UNCHANGED <<env, left, last, report, calls>>

---------------------------------------------------------------------------
(* process_components: one loop body per component, then the report *)

\* The evaluator each loop of process_components calls
Evaluate(component_type, component, rule, candidate) ==
    CASE component_type = "room" ->
            evaluate_room_component(component, rule, candidate)
      [] component_type = "geometric_setback" ->
            evaluate_setback_component(component, rule, candidate, TRUE)
      [] component_type = "opening" ->
            evaluate_opening_component(component, rule, candidate)
      [] component_type = "parking" ->
            evaluate_parking_component(component, rule, candidate)
      [] component_type = "lot_info" ->
            evaluate_lot_info_component(component, rule, candidate)
      [] OTHER ->
            evaluate_water_feature_component(component, rule, candidate)

\* A variant of the candidate loop's tests without the relevance check: every
\* candidate whose rule was fetched reaches the evaluator
SurvivorsUnjudged(candidates, rules, openai_client, oracle) ==
    {i \in DOMAIN candidates : candidates[i].rule_id \in rules}

\* The candidates that reach the evaluator: their rule was fetched and
\* check_rule_relevance judged it relevant
Survivors(candidates, rules, openai_client, oracle) ==
    {i \in DOMAIN candidates :
        /\ candidates[i].rule_id \in rules
        /\ check_rule_relevance(openai_client, oracle[candidates[i].rule_id]).relevant}

\* A variant of the candidate loop without `if not is_relevant: continue`:
\* every candidate whose rule was fetched reaches the evaluator
RECURSIVE EvaluateUnfiltered(_, _, _, _, _, _)
EvaluateUnfiltered(i, component_type, component, candidates, survivors, acc) ==
    IF i > Len(candidates) THEN [raised |-> FALSE, appended |-> acc]
    ELSE IF candidates[i].rule_id \notin StoreIds
    THEN EvaluateUnfiltered(i + 1, component_type, component, candidates, survivors, acc)
    ELSE LET eval_result == Evaluate(component_type, component,
                                     StoredRule(candidates[i].rule_id), candidates[i])
         IN  IF eval_result.kind = "raise" THEN [raised |-> TRUE, appended |-> acc]
             ELSE EvaluateUnfiltered(i + 1, component_type, component, candidates,
                                     survivors,
                                     IF eval_result.kind = "eval"
                                     THEN Append(acc, eval_result.ev) ELSE acc)

\* for candidate in candidates: ... evaluations.append(eval_result)
\* up to the first candidate whose evaluator raises
RECURSIVE EvaluateFrom(_, _, _, _, _, _)
EvaluateFrom(i, component_type, component, candidates, survivors, acc) ==
    IF i > Len(candidates) THEN [raised |-> FALSE, appended |-> acc]
    ELSE IF i \notin survivors
    THEN EvaluateFrom(i + 1, component_type, component, candidates, survivors, acc)
    ELSE LET eval_result == Evaluate(component_type, component,
                                     StoredRule(candidates[i].rule_id), candidates[i])
         IN  IF eval_result.kind = "raise" THEN [raised |-> TRUE, appended |-> acc]
             ELSE EvaluateFrom(i + 1, component_type, component, candidates, survivors,
                               IF eval_result.kind = "eval"
                               THEN Append(acc, eval_result.ev) ELSE acc)

\* The component the walk over the document passed last and the locals of its
\* loop body: whether the keyword search was called for it (every loop body
\* calls it), which channel was down, whether
\* the merged candidate list was non-empty (`if candidates:`), the ids of the
\* rules that were fetched and that check_rule_relevance judged relevant, where an exception left it, how many
\* evaluations it appended
NoBody == [component_type |-> "", searched |-> FALSE,
           sem_down |-> FALSE, lex_down |-> FALSE,
           retrieved |-> FALSE, relevant |-> {}, raised_in |-> "", appended |-> 0]

\* The history of the remote calls of a run: the query text of the last loop
\* body and whether it called the embedding generator, the query texts the
\* generator embedded in this run, the rule ids requested from the rule store
\* in this run and those requested again by a later loop body. A run that
\* starts with Unlogged keeps no history.
NoCalls  == [text |-> <<>>, generator |-> FALSE, embedded_ok |-> {},
             fetched |-> {}, refetched |-> {}]
Unlogged == [NoCalls EXCEPT !.text = <<"unlogged">>]

\* The history after a loop body: text is its query text, sem what the semantic
\* channel returned to it, rule_ids the ids it passed to fetch_rules_by_ids
Logged(text, sem, rule_ids) ==
    IF calls = Unlogged THEN calls
    ELSE [text        |-> text,
          generator   |-> sem.called,
          embedded_ok |-> calls.embedded_ok \cup
                            (IF sem.called /\ text \in sem.cache THEN {text} ELSE {}),
          fetched     |-> calls.fetched \cup rule_ids,
          refetched   |-> calls.refetched \cup (rule_ids \cap calls.fetched)]

\* What the semantic channel can return for a component: it is called only
\* `if pinecone_client`
SemanticReturns(query_type, component) ==
    IF ~clients.pinecone
    THEN {[candidates |-> <<>>, cache |-> embed_cache, down |-> TRUE, called |-> FALSE]}
    ELSE {query_pinecone_for_component(query_type, component, clients.pinecone,
                                       clients.openai, embed_cache, embed, index) :
            embed \in CallOutcomes, index \in IndexOutcomes}

\* What the lexical channel can return for a component
LexicalReturns(query_type, component) ==
    {search_rules_by_keywords(query_type, Keywords(query_type, component), store) :
        store \in StoreOutcomes}

\* `if candidates:` lookup, relevance and evaluation of the merged candidates
Resolve(component_type, component, candidates, fetch, oracle) ==
    LET ids       == {candidates[i].rule_id : i \in DOMAIN candidates}
        fetched   == fetch_rules_by_ids(ids, fetch)
        survivors == Survivors(candidates, fetched.rules, clients.openai, oracle)
        done      == EvaluateFrom(1, component_type, component, candidates,
                                  survivors, <<>>)
    IN  IF candidates = <<>>
        THEN [relevant |-> {}, raised_in |-> "", evals |-> <<>>]
        ELSE IF fetched.raised
        THEN [relevant |-> {}, raised_in |-> "lookup", evals |-> <<>>]
        ELSE [relevant  |-> {id \in fetched.rules :
                                check_rule_relevance(clients.openai, oracle[id]).relevant},
              raised_in |-> IF done.raised THEN "evaluator" ELSE "",
              evals     |-> done.appended]

\* One body of a loop of process_components over a component list:
\* semantic channel, lexical channel, merge, lookup, relevance, evaluation.
\* query_type is the type tag the loop passes to the two channels.
LoopBody(component_type, query_type, component) ==
    /\ run = "running"
    /\ left > 0
    /\ left' = left - 1
    /\ UNCHANGED <<env, clients, report>>
    /\ \E sem \in SemanticReturns(query_type, component),
          lex \in LexicalReturns(query_type, component) :
        LET candidates == MergeLexical(sem.candidates, lex.rule_ids)
            body == [NoBody EXCEPT !.component_type = component_type,
                                   !.searched = TRUE,
                                   !.sem_down = sem.down,
                                   !.lex_down = lex.raised]
            text == QueryText(query_type, component)
        IN  /\ embed_cache' = sem.cache
            /\ IF lex.raised
               THEN /\ run' = "raised"
                    /\ last' = [body EXCEPT !.raised_in = "lexical"]
                    /\ calls' = Logged(text, sem, {})
                    /\ UNCHANGED evaluations
               ELSE \E out \in {Resolve(component_type, component, candidates, fetch, oracle) :
                                  fetch \in CallOutcomes,
                                  oracle \in [StoreIds -> OracleOutcomes]} :
                    /\ evaluations' = evaluations \o out.evals
                    /\ calls' = Logged(text, sem,
                                       {candidates[i].rule_id : i \in DOMAIN candidates})
                    /\ run' = IF out.raised_in # "" THEN "raised" ELSE run
                    /\ last' = [body EXCEPT
                                  !.retrieved  = candidates # <<>>,
                                  !.relevant   = out.relevant,
                                  !.raised_in  = out.raised_in,
                                  !.appended   = Len(out.evals)]

\* The components a document can hold, per array of a sheet
Rooms      == {[name |-> "Bed 1", room_type |-> "bedroom", area |-> Num(1200),
                width |-> None, length |-> None]}
GeometricSetbacks ==
              {[direction |-> "front", avg_distance |-> Num(35), distance |-> None]}
Openings   == {[opening_type |-> "window", width |-> Num(30), is_egress |-> FALSE,
                location |-> loc] : loc \in {"12", Null}}
Parking    == {[space_type |-> "standard", width |-> Num(90), length |-> Num(180),
                accessible |-> FALSE]}
LotInfos   == {[lot_number |-> "7", lot_area |-> Num(6000),
                boundary_dimensions |-> "[..]"]}
WaterFeatures ==
              {[feature_type |-> "creek", name |-> n] : n \in {"Dry Creek", Null}}

ProcessRoom == \E room \in Rooms : LoopBody("room", "room", room)

ProcessGeometricSetback ==
    \E setback \in GeometricSetbacks : LoopBody("geometric_setback", "setback", setback)

ProcessOpening == \E opening \in Openings : LoopBody("opening", "opening", opening)

ProcessParking == \E parking \in Parking : LoopBody("parking", "parking", parking)

ProcessLotInfo == \E lot_info \in LotInfos : LoopBody("lot_info", "lot_info", lot_info)

ProcessWaterFeature ==
    \E water_feature \in WaterFeatures :
        LoopBody("water_feature", "water_feature", water_feature)

\* The annotated setbacks of a sheet (its `setbacks` array)
Setbacks   == {[direction |-> "front", distance |-> Num(35), avg_distance |-> None]}

\* process_components has no loop over sheet["setbacks"]: the walk passes an
\* annotated setback of the document without a retrieval or an evaluation
PassAnnotatedSetback ==
    /\ run = "running"
    /\ left > 0
    /\ \E setback \in Setbacks :
           last' = [NoBody EXCEPT !.component_type = "setback"]
    /\ left' = left - 1
    /\ UNCHANGED <<run, env, clients, evaluations, embed_cache, report, calls>>

\* return evaluations, once every list of every sheet has been walked
ReturnEvaluations ==
    /\ run = "running"
    /\ left = 0
    /\ run' = "returned"
    /\ UNCHANGED <<env, clients, left, evaluations, embed_cache, last, report, calls>>

---------------------------------------------------------------------------
(* build_compliance_report *)

\* round(): to the nearest integer quotient n/d, ties to the even one
RoundHalfEven(n, d) ==
    LET q == n \div d
        r == n % d
    IN  IF 2 * r < d THEN q
        ELSE IF 2 * r > d THEN q + 1
        ELSE IF q % 2 = 0 THEN q ELSE q + 1

\* round(confidence, 3), confidences being counted in ten-thousandths
Round3(confidence) == 10 * RoundHalfEven(confidence, 10)

\* A rate is a fraction num/den of a percent; x / 0 raises ZeroDivisionError
ZeroDivisionError == [num |-> 0, den |-> 0]
Rate(num, den) == IF den = 0 THEN ZeroDivisionError ELSE [num |-> num, den |-> den]

CountStatus(evals, status) ==
    Cardinality({i \in DOMAIN evals : evals[i].status = status})

\* status_counts: the statuses that occur, each with its count
StatusBreakdown(evals) ==
    [st \in {evals[i].status : i \in DOMAIN evals} |-> CountStatus(evals, st)]

\* round(status_counts["PASS"] / len(evaluations) * 100, 1) if evaluations else 0
CompliancePassRate(evals) ==
    IF evals # <<>>
    THEN Rate(RoundHalfEven(1000 * CountStatus(evals, "PASS"), Len(evals)), 10)
    ELSE Rate(0, 1)

\* The dict of one evaluation: the fields as they are, the confidence rounded
Serialise(ev) == [ev EXCEPT !.confidence = Round3(ev.confidence)]

build_compliance_report(evals) ==
    [summary     |-> [total_evaluations |-> Len(evals),
                      status_breakdown  |-> StatusBreakdown(evals),
                      pass_rate         |-> CompliancePassRate(evals)],
     evaluations |-> [i \in DOMAIN evals |-> Serialise(evals[i])]]

NoReport == build_compliance_report(<<>>)

\* main(): report = build_compliance_report(plan_name, evaluations); json.dump
BuildComplianceReport ==
    /\ run = "returned"
    /\ run' = "reported"
    /\ report' = build_compliance_report(evaluations)
    /\ UNCHANGED <<env, clients, left, evaluations, embed_cache, last, calls>>

---------------------------------------------------------------------------
(* filter_and_deduplicate_evaluations, build_enhanced_report *)

building_keywords == {"dwelling house", "building work", "class 10 building",
                      "building height", "roofed area", "site cover"}

\* str.lower() on the vocabulary of the model
Lower(s) == CASE s = "DWELLING HOUSE"  -> "dwelling house"
              [] s = "Building Height" -> "building height"
              [] s = "Site Cover"      -> "site cover"
              [] OTHER                 -> s

\* is_site_plan: sheets and sheets[0].get("lot_info")
IsSitePlan(components) == components # <<>> /\ components[1].lot_info

\* keyword in requirement or keyword in topic or any(keyword in zone ...)
IsBuildingSpecific(ev) ==
    \E keyword \in building_keywords :
        \/ \E w \in ev.requirement : Lower(w) = keyword
        \/ Lower(ev.topic) = keyword
        \/ \E z \in DOMAIN ev.zones : Lower(ev.zones[z]) = keyword

\* The first loop: for a site plan, eval.get("topic", "").lower() raises on a
\* null topic; building-specific evaluations are skipped
FilterRaises(evals, components) ==
    IsSitePlan(components) /\ \E i \in DOMAIN evals : evals[i].topic = Null

\* A variant of the first loop that stores what it keeps with a lower-cased
\* topic, the form in which it compares it
FilteredLowered(evals, components) ==
    LET kept == IF IsSitePlan(components)
                THEN SelectSeq(evals, LAMBDA ev : ~IsBuildingSpecific(ev))
                ELSE evals
    IN  [i \in DOMAIN kept |-> [kept[i] EXCEPT !.topic = Lower(@)]]

\* filtered: the evaluations themselves (filtered.append(eval)), without the
\* building-specific ones for a site plan
Filtered(evals, components) ==
    IF IsSitePlan(components)
    THEN SelectSeq(evals, LAMBDA ev : ~IsBuildingSpecific(ev))
    ELSE evals

\* A variant of the second loop that replaces on `>=`: the last of the
\* evaluations of maximal confidence wins
RECURSIVE DeduplicateLastWins(_, _)
DeduplicateLastWins(filtered, seen) ==
    IF filtered = <<>> THEN seen
    ELSE LET ev   == Head(filtered)
             same == {j \in DOMAIN seen : seen[j].rule_id = ev.rule_id}
         IN  DeduplicateLastWins(Tail(filtered),
                 IF same = {} THEN Append(seen, ev)
                 ELSE LET j == CHOOSE k \in same : TRUE
                      IN  IF ev.confidence >= seen[j].confidence
                          THEN [seen EXCEPT ![j] = ev]
                          ELSE seen)

\* A variant of the key that tells evaluations without a rule id apart by
\* their component
RuleKeyOrComponent(ev) ==
    IF ev.rule_id \in {Absent, Null} THEN ev.component_id ELSE ev.rule_id

\* rule_id = eval.get("rule_id"): None for an evaluation without the key
RuleKey(ev) == Get(ev.rule_id, Null)

\* The second loop: seen_rules[rule_id] = eval when the id is new or the
\* confidence is strictly greater; a dict keeps the place of a key it has
RECURSIVE Deduplicate(_, _)
Deduplicate(filtered, seen) ==
    IF filtered = <<>> THEN seen
    ELSE LET ev   == Head(filtered)
             same == {j \in DOMAIN seen : RuleKey(seen[j]) = RuleKey(ev)}
         IN  Deduplicate(Tail(filtered),
                 IF same = {} THEN Append(seen, ev)
                 ELSE LET j == CHOOSE k \in same : TRUE
                      IN  IF ev.confidence > seen[j].confidence
                          THEN [seen EXCEPT ![j] = ev]
                          ELSE seen)

filter_and_deduplicate_evaluations(evals, components) ==
    IF FilterRaises(evals, components)
    THEN [raised |-> TRUE,  evaluations |-> <<>>]
    ELSE [raised |-> FALSE,
          evaluations |-> Deduplicate(Filtered(evals, components), <<>>)]

\* A variant of the rebuilt pass rate without `if evaluations else 0.0`
UnguardedPassRate(evals) == Rate(100 * CountStatus(evals, "PASS"), Len(evals))

\* (status_breakdown.get("PASS", 0) / len(evaluations) * 100) if evaluations else 0.0
EnhancedPassRate(evals) ==
    IF evals # <<>> THEN Rate(100 * CountStatus(evals, "PASS"), Len(evals))
    ELSE Rate(0, 1)

\* A variant that leaves the summary of the compliance file in place
StaleSummary(evals) == report.summary

\* compliance_data["summary"] = {...}: counted over the retained evaluations
RecomputedSummary(evals) ==
    [total_evaluations |-> Len(evals),
     status_breakdown  |-> StatusBreakdown(evals),
     pass_rate         |-> EnhancedPassRate(evals)]

\* build_enhanced_report: load both documents, filter and deduplicate, replace
\* compliance_data["summary"]; the report sections read it from there
BuildEnhancedReport ==
    /\ run = "reported"
    /\ rpc = "start"
    /\ LET out == filter_and_deduplicate_evaluations(report.evaluations, components_data)
       IN  IF out.raised
           THEN /\ rpc' = "raised"
                /\ UNCHANGED <<compliance_data, retained>>
           ELSE /\ rpc' = "rendered"
                /\ retained' = out.evaluations
                /\ compliance_data' =
                     [report EXCEPT !.summary = RecomputedSummary(out.evaluations)]
    /\ UNCHANGED <<components_data, pipeVars>>

---------------------------------------------------------------------------
(* compliCheckV2.py: run_complicheck *)

\* The files of the output directory
ComponentsFile == "components.json"
EnrichedFile   == "enriched.json"
ComplianceFile == "compliance.json"
ReportFile     == "report.pdf"

\* A variant of step 2 that hands on the enriched path whatever happened
step2_enrich_components_output(api_key, script_exists, command_ok) ==
    [enriched |-> api_key /\ script_exists /\ command_ok,
     path     |-> EnrichedFile,
     command  |-> IF api_key /\ script_exists
                  THEN (IF command_ok THEN "ok" ELSE "failed") ELSE "not run"]

\* step2_enrich_components: (False, components_path) without ANTHROPIC_API_KEY,
\* without the enrichment script, and when the enrichment command fails;
\* (True, output_path) when the command succeeded
step2_enrich_components(api_key, script_exists, command_ok) ==
    IF ~api_key
    THEN [enriched |-> FALSE, path |-> ComponentsFile, command |-> "not run"]
    ELSE IF ~script_exists
    THEN [enriched |-> FALSE, path |-> ComponentsFile, command |-> "not run"]
    ELSE IF command_ok
    THEN [enriched |-> TRUE,  path |-> EnrichedFile,   command |-> "ok"]
    ELSE [enriched |-> FALSE, path |-> ComponentsFile, command |-> "failed"]

\* run_complicheck before its first statement; the inputs are filled in by
\* InitV2
V2Start ==
    [pc |-> "start", pdf_exists |-> FALSE, enable_enrichment |-> FALSE,
     api_key |-> FALSE, script_exists |-> FALSE, keep_intermediates |-> FALSE,
     enriched |-> FALSE, working_components_file |-> ComponentsFile,
     enrich_command |-> "not run", check_input |-> "", report_input |-> "",
     files |-> {}, stopped_at |-> 0, success |-> FALSE]

V2Idle == v2 = V2Start

\* run_complicheck stops with False at the given step
V2Stopped(step) ==
    [v2 EXCEPT !.pc = "returned", !.stopped_at = step, !.success = FALSE]

\* Input validation and step 1: the run stops when the PDF does not exist and
\* when the extraction command fails
Step1ExtractComponents ==
    /\ v2.pc = "start"
    /\ IF ~v2.pdf_exists
       THEN v2' = V2Stopped(0)
       ELSE \E ok \in BOOLEAN :
              v2' = IF ok
                    THEN [v2 EXCEPT !.pc = "step2",
                                    !.files = @ \cup {ComponentsFile}]
                    ELSE V2Stopped(1)

\* Step 2: enriched = False and working_components_file = components_file,
\* replaced by what step2_enrich_components returns when enrichment is enabled
Step2EnrichComponents ==
    /\ v2.pc = "step2"
    /\ IF v2.enable_enrichment
       THEN \E command_ok \in BOOLEAN :
              LET r == step2_enrich_components(v2.api_key, v2.script_exists, command_ok)
              IN  v2' = [v2 EXCEPT !.pc = "step3",
                                   !.enriched = r.enriched,
                                   !.working_components_file = r.path,
                                   !.enrich_command = r.command,
                                   !.files = IF r.command = "ok"
                                             THEN @ \cup {EnrichedFile} ELSE @]
       ELSE v2' = [v2 EXCEPT !.pc = "step3"]

\* Step 3: the compliance check reads working_components_file; the run stops
\* when the command fails
Step3CheckCompliance ==
    /\ v2.pc = "step3"
    /\ \E ok \in BOOLEAN :
         LET read == [v2 EXCEPT !.check_input = v2.working_components_file]
         IN  v2' = IF ok
                   THEN [read EXCEPT !.pc = "step4",
                                     !.files = @ \cup {ComplianceFile}]
                   ELSE [read EXCEPT !.pc = "returned", !.stopped_at = 3]

\* Step 4, cleanup and return: the report generator reads
\* working_components_file; the run stops when the command fails; else the
\* intermediate files of an unenriched run are removed unless kept, and the
\* run returns True
Step4GenerateReport ==
    /\ v2.pc = "step4"
    /\ \E ok \in BOOLEAN :
         LET read == [v2 EXCEPT !.report_input = v2.working_components_file]
         IN  v2' = IF ok
                   THEN [read EXCEPT
                           !.pc = "returned",
                           !.success = TRUE,
                           !.files = (@ \cup {ReportFile}) \
                                       (IF ~v2.keep_intermediates /\ ~v2.enriched
                                        THEN {ComponentsFile, ComplianceFile}
                                        ELSE {})]
                   ELSE [read EXCEPT !.pc = "returned", !.stopped_at = 4]

---------------------------------------------------------------------------
(* backend/main.py: POST /process and the background task process_files *)

\* The plans the pipeline is run on
Plans == {"site_plan", "building_plan"}

\* What the subprocess of run_complicheck can do: not start or leave files
\* that cannot be read (an exception), run longer than 300 s, exit non-zero,
\* or exit 0 with a compliance file, with only the extracted data, or with
\* no file at all
SubprocessOutcomes == {"exception", "timeout", "nonzero", "compliance",
                       "components only", "no files"}

\* run_complicheck of the backend: the status of the dict it returns; every
\* Exception is caught and returned as status 'error'
backend_run_complicheck(outcome) ==
    CASE outcome = "exception"       -> "error"
      [] outcome = "timeout"         -> "timeout"
      [] outcome = "nonzero"         -> "failed"
      [] outcome = "components only" -> "review"
      [] OTHER                       -> "completed"

NoResults == [plan \in {} |-> ""]

\* prechecks[precheck_id] as create_precheck stores it (no progress key:
\* get_status reads it as 0)
CreatedPrecheck ==
    [status |-> "created", processing_step |-> Absent, progress |-> 0,
     files |-> {}, results |-> NoResults]

\* No background task: position, the `files` dict and the `results` dict of
\* the closure, and how the task ended (whether its except branch ran, and the
\* status and progress it left)
NoTask == [pc |-> "none", files |-> {}, results |-> NoResults,
           raised |-> FALSE, status |-> "", progress |-> 0]

ApiIdle == precheck = CreatedPrecheck /\ task = NoTask

\* POST /upload: precheck['files'] is replaced by the files of this request
\* and the status becomes 'files_uploaded', whatever the pre-check is doing.
\* The closure of a running task keeps the dict it read.
UploadFiles ==
    /\ \E uploaded \in SUBSET Plans :
           precheck' = [precheck EXCEPT !.files = uploaded, !.status = "files_uploaded"]
    /\ UNCHANGED task

\* POST /process: 400 without a site plan; else the pre-check is marked as
\* processing (progress 10) and process_files is added to the background
\* tasks. One task at a time is followed.
ProcessPrecheck ==
    /\ task.pc \in {"none", "ended"}
    /\ "site_plan" \in precheck.files
    /\ precheck' = [precheck EXCEPT
                      !.status = "processing",
                      !.processing_step = "Preparing documents for analysis...",
                      !.progress = 10]
    /\ task' = [NoTask EXCEPT !.pc = "queued", !.files = precheck.files]

\* process_files up to its first await
TaskStart ==
    /\ task.pc = "queued"
    /\ precheck' = [precheck EXCEPT
                      !.processing_step = "Extracting components from site plan...",
                      !.progress = 25]
    /\ task' = [task EXCEPT !.pc = "site_plan"]

\* A variant of the end of the try block that reports the failure of a plan
TaskCompletedIfPlansDid(results) ==
    IF \E plan \in DOMAIN results : results[plan] \in {"failed", "timeout", "error"}
    THEN [precheck EXCEPT !.results = results, !.status = "failed",
                          !.processing_step = "Error", !.progress = 0]
    ELSE [precheck EXCEPT !.results = results, !.status = "completed",
                          !.processing_step = "Complete", !.progress = 100]

\* The end of the try block: precheck['results'] = results, status
\* 'completed', progress 100
TaskCompleted(results) ==
    [precheck EXCEPT !.results = results, !.status = "completed",
                     !.processing_step = "Complete", !.progress = 100]

\* The except branch: status 'failed', progress 0
TaskFailed ==
    [precheck EXCEPT !.status = "failed", !.processing_step = "Error", !.progress = 0]

\* The task ends and leaves the pre-check as `after`
TaskEnds(after, raised, results) ==
    /\ precheck' = after
    /\ task' = [task EXCEPT !.pc = "ended", !.raised = raised, !.results = results,
                            !.status = after.status, !.progress = after.progress]

\* The await of run_complicheck on the site plan is over: an exception that
\* run_complicheck did not catch goes to the except branch; else the result
\* is stored, and the task goes on to the building plan if one was uploaded,
\* or ends
SitePlanReturns ==
    /\ task.pc = "site_plan"
    /\ \/ TaskEnds(TaskFailed, TRUE, task.results)
       \/ \E outcome \in SubprocessOutcomes :
            LET results == ("site_plan" :> backend_run_complicheck(outcome)) @@ task.results
            IN  IF "building_plan" \in task.files
                THEN /\ precheck' = [precheck EXCEPT
                           !.processing_step = "Extracting components from building plan...",
                           !.progress = 60]
                     /\ task' = [task EXCEPT !.pc = "building_plan", !.results = results]
                ELSE TaskEnds(TaskCompleted(results), FALSE, results)

\* The await of run_complicheck on the building plan is over
BuildingPlanReturns ==
    /\ task.pc = "building_plan"
    /\ \/ TaskEnds(TaskFailed, TRUE, task.results)
       \/ \E outcome \in SubprocessOutcomes :
            LET results == ("building_plan" :> backend_run_complicheck(outcome))
                               @@ task.results
            IN  TaskEnds(TaskCompleted(results), FALSE, results)

---------------------------------------------------------------------------
(* Specifications *)

PipeIdle == /\ run = "idle"
            /\ env = {}
            /\ clients = [pinecone |-> FALSE, openai |-> FALSE]
            /\ left = 0
            /\ evaluations = <<>>
            /\ embed_cache = {}
            /\ last = NoBody
            /\ report = NoReport
            /\ calls = Unlogged

RepIdle == /\ rpc = "start"
           /\ components_data = <<>>
           /\ compliance_data = NoReport
           /\ retained = <<>>

\* SpecEval: every evaluator, the relevance check and the retrieval of a
\* component, each on every input of the bounded sets
InitEval == EvalIdle /\ PipeIdle /\ RepIdle /\ V2Idle /\ ApiIdle

NextEval ==
    /\ \/ EvalRoom
       \/ EvalSetback
       \/ EvalOpening
       \/ EvalParking
       \/ EvalLotInfo
       \/ EvalWaterFeature
       \/ EvalRelevance
       \/ EvalRetrieval
    /\ UNCHANGED <<pipeVars, repVars, v2Vars, apiVars>>

SpecEval == InitEval /\ [][NextEval]_vars

\* Spec: main() from the connections to the compliance report.
\* The components are visited in document order; with one sheet per component
\* every order of the types occurs, so each step may take any loop's body.
Init ==
    /\ EvalIdle
    /\ RepIdle
    /\ V2Idle
    /\ ApiIdle
    /\ run = "start"
    /\ env \in SUBSET EnvVars
    /\ clients = [pinecone |-> FALSE, openai |-> FALSE]
    /\ left \in 0..MaxComponents
    /\ evaluations = <<>>
    /\ embed_cache = {}
    /\ last = NoBody
    /\ report = NoReport
    /\ calls = Unlogged

Next ==
    /\ \/ ConnectDatabases
       \/ ProcessRoom
       \/ ProcessGeometricSetback
       \/ ProcessOpening
       \/ ProcessParking
       \/ ProcessLotInfo
       \/ ProcessWaterFeature
       \/ PassAnnotatedSetback
       \/ ReturnEvaluations
       \/ BuildComplianceReport
    /\ UNCHANGED <<evalVars, repVars, v2Vars, apiVars>>

Spec == Init /\ [][Next]_vars

\* SpecReport: the report stage on every evaluation list of the bounded sets:
\* build_compliance_report writes the compliance document, build_enhanced_report
\* reads it back with the components document.
MaxEvals == 3

Evaluation(rule_id, confidence, flavour) ==
    [NoEvaluation EXCEPT !.component_id = <<"c">>, !.component_type = "room",
                         !.rule_id = rule_id, !.confidence = confidence,
                         !.status = flavour.status, !.requirement = flavour.requirement,
                         !.topic = flavour.topic, !.zones = flavour.zones,
                         !.source = "pinecone"]

Flavours ==
    {[status |-> "PASS",   requirement |-> {"BEDROOM"}, topic |-> "room size",
      zones |-> <<"Residential">>],
     [status |-> "FAIL",   requirement |-> {"DWELLING HOUSE"}, topic |-> "siting",
      zones |-> <<>>],
     [status |-> "REVIEW", requirement |-> {}, topic |-> Null, zones |-> <<>>],
     [status |-> "REVIEW", requirement |-> {}, topic |-> "Building Height",
      zones |-> <<>>],
     [status |-> "PASS",   requirement |-> {}, topic |-> "lot",
      zones |-> <<"Residential", "Site Cover">>]}

EvaluationPool ==
    {Evaluation(x[1], x[2], f) :
        x \in {<<"R1", 3000>>, <<"R1", 8504>>, <<"R2", 8504>>}, f \in Flavours}

ComponentsDocuments ==
    {<<>>, <<[lot_info |-> FALSE]>>, <<[lot_info |-> TRUE]>>,
     <<[lot_info |-> FALSE], [lot_info |-> TRUE]>>}

InitReport ==
    /\ EvalIdle
    /\ V2Idle
    /\ ApiIdle
    /\ run = "returned"
    /\ env = Neo4jVars
    /\ clients = [pinecone |-> FALSE, openai |-> FALSE]
    /\ left = 0
    /\ evaluations \in SeqsUpTo(EvaluationPool, MaxEvals)
    /\ embed_cache = {}
    /\ last = NoBody
    /\ report = NoReport
    /\ calls = Unlogged
    /\ rpc = "start"
    /\ components_data \in ComponentsDocuments
    /\ compliance_data = NoReport
    /\ retained = <<>>

NextReport ==
    \/ BuildComplianceReport /\ UNCHANGED <<evalVars, repVars, v2Vars, apiVars>>
    \/ BuildEnhancedReport /\ UNCHANGED <<evalVars, v2Vars, apiVars>>

SpecReport == InitReport /\ [][NextReport]_vars

\* SpecBedrock: build_enhanced_report on a compliance document written by
\* check_component_compliance_bedrock.py. Its records have no rule_id, topic,
\* zones or source key, and the document has no summary.
BedrockEvaluation(component_id, outcome) ==
    [NoEvaluation EXCEPT !.component_id = component_id, !.component_type = "room",
                         !.rule_id = Absent, !.topic = Absent, !.source = Absent,
                         !.requirement = outcome.requirement,
                         !.status = outcome.status,
                         !.confidence = outcome.confidence,
                         !.notes = <<"kb">>]

\* What the Bedrock checker records for a component: NOT_APPLICABLE with
\* confidence 0.0 without a knowledge-base result, else the verdict of the model
BedrockOutcomes ==
    {[status |-> "NOT_APPLICABLE", confidence |-> 0, requirement |-> {}],
     [status |-> "PASS", confidence |-> 8504, requirement |-> {"BEDROOM"}],
     [status |-> "FAIL", confidence |-> 8504, requirement |-> {"DWELLING HOUSE"}]}

BedrockPool ==
    {BedrockEvaluation(<<id>>, outcome) : id \in {"c1", "c2"}, outcome \in BedrockOutcomes}

InitBedrock ==
    /\ EvalIdle
    /\ V2Idle
    /\ ApiIdle
    /\ run = "reported"
    /\ env = {}
    /\ clients = [pinecone |-> FALSE, openai |-> FALSE]
    /\ left = 0
    /\ evaluations = <<>>
    /\ embed_cache = {}
    /\ last = NoBody
    /\ \E evals \in SeqsUpTo(BedrockPool, MaxEvals) :
           report = [summary |-> Absent, evaluations |-> evals]
    /\ calls = Unlogged
    /\ rpc = "start"
    /\ components_data \in ComponentsDocuments
    /\ compliance_data = NoReport
    /\ retained = <<>>

NextBedrock == BuildEnhancedReport /\ UNCHANGED <<evalVars, v2Vars, apiVars>>

SpecBedrock == InitBedrock /\ [][NextBedrock]_vars

\* SpecCalls: main() up to the return of process_components on a document of
\* rooms and geometric setbacks, with the history of its remote calls. The
\* cache variable starts with what an earlier run in the same process left.
InitCalls ==
    /\ EvalIdle
    /\ RepIdle
    /\ V2Idle
    /\ ApiIdle
    /\ run = "start"
    /\ env \in {e \in SUBSET EnvVars : Neo4jVars \subseteq e}
    /\ clients = [pinecone |-> FALSE, openai |-> FALSE]
    /\ left \in 0..MaxComponents
    /\ evaluations = <<>>
    /\ embed_cache \in {{}} \cup {{QueryText("room", room)} : room \in Rooms}
    /\ last = NoBody
    /\ report = NoReport
    /\ calls = NoCalls

NextCalls ==
    /\ \/ ConnectDatabases
       \/ ProcessRoom
       \/ ProcessGeometricSetback
       \/ ReturnEvaluations
    /\ UNCHANGED <<evalVars, repVars, v2Vars, apiVars>>

SpecCalls == InitCalls /\ [][NextCalls]_vars

\* SpecV2: run_complicheck on every combination of its inputs and of the
\* outcomes of the four commands
InitV2 ==
    /\ EvalIdle
    /\ PipeIdle
    /\ RepIdle
    /\ ApiIdle
    /\ \E pdf, enable, key, script, keep \in BOOLEAN :
         v2 = [V2Start EXCEPT !.pdf_exists = pdf, !.enable_enrichment = enable,
                              !.api_key = key, !.script_exists = script,
                              !.keep_intermediates = keep]

NextV2 ==
    /\ \/ Step1ExtractComponents
       \/ Step2EnrichComponents
       \/ Step3CheckCompliance
       \/ Step4GenerateReport
    /\ UNCHANGED <<evalVars, pipeVars, repVars, apiVars>>

SpecV2 == InitV2 /\ [][NextV2]_vars

\* SpecBackend: one pre-check of the backend: uploads, POST /process, and the
\* background task. SpecBackendLive adds the scheduling: the event loop runs
\* a queued task, and an await of run_complicheck ends (its subprocess is
\* given 300 s).
InitBackend == EvalIdle /\ PipeIdle /\ RepIdle /\ V2Idle /\ ApiIdle

NextBackend ==
    /\ \/ UploadFiles
       \/ ProcessPrecheck
       \/ TaskStart
       \/ SitePlanReturns
       \/ BuildingPlanReturns
    /\ UNCHANGED <<evalVars, pipeVars, repVars, v2Vars>>

SpecBackend == InitBackend /\ [][NextBackend]_vars

SpecBackendLive ==
    /\ InitBackend
    /\ [][NextBackend]_vars
    /\ WF_apiVars(TaskStart)
    /\ WF_apiVars(SitePlanReturns)
    /\ WF_apiVars(BuildingPlanReturns)

---------------------------------------------------------------------------
(* Properties *)

Statuses == {"PASS", "FAIL", "REVIEW", "NOT_APPLICABLE", "NO_APPLICABLE_RULES"}

\* The evaluations of the compliance document that pass the domain filter
Surviving == Filtered(report.evaluations, components_data)

\* The positions of a rule id in a list of evaluations
PositionsOf(evals, rule_id) == {i \in DOMAIN evals : evals[i].rule_id = rule_id}

\* The first position, among those of a rule id, that carries its greatest confidence
FirstMaximal(evals, rule_id) ==
    CHOOSE i \in PositionsOf(evals, rule_id) :
        \A m \in PositionsOf(evals, rule_id) :
            \/ evals[m].confidence < evals[i].confidence
            \/ evals[m].confidence = evals[i].confidence /\ i <= m

\* C1: the output of filter_and_deduplicate_evaluations holds at most one
\* evaluation per rule_id (and one for every rule_id that passes the domain
\* filter); the one kept is the first in input order among the surviving
\* evaluations of greatest confidence for its rule_id, so its confidence is >=
\* that of every evaluation removed for the same rule_id.
C1_DedupKeepsFirstMaximal ==
    rpc = "rendered" =>
        /\ \A i, j \in DOMAIN retained :
               retained[i].rule_id = retained[j].rule_id => i = j
        /\ {retained[j].rule_id : j \in DOMAIN retained}
               = {Surviving[i].rule_id : i \in DOMAIN Surviving}
        /\ \A j \in DOMAIN retained :
               /\ retained[j] = Surviving[FirstMaximal(Surviving, retained[j].rule_id)]
               /\ \A m \in PositionsOf(Surviving, retained[j].rule_id) :
                      retained[j].confidence >= Surviving[m].confidence

\* C1 happens: two different evaluations of one rule_id tie on confidence, no
\* domain filter applies, and deduplication has removed one of them
C1_Witness ==
    /\ rpc = "rendered"
    /\ ~IsSitePlan(components_data)
    /\ Len(retained) < Len(report.evaluations)
    /\ \E i, m \in DOMAIN report.evaluations :
           /\ i < m
           /\ report.evaluations[i].rule_id = report.evaluations[m].rule_id
           /\ report.evaluations[i].confidence = report.evaluations[m].confidence
           /\ report.evaluations[i] # report.evaluations[m]

\* C2: every evaluation process_components produces and build_compliance_report
\* serialises has a confidence in [0.0, 1.0], whatever score the similarity
\* index returned for the candidate.
C2_ConfidenceInUnitInterval ==
    /\ \A i \in DOMAIN evaluations : evaluations[i].confidence \in 0..10000
    /\ \A i \in DOMAIN report.evaluations :
           report.evaluations[i].confidence \in 0..10000

\* C3: every evaluation process_components produces and every evaluation of the
\* report of build_compliance_report has a status among PASS, FAIL, REVIEW,
\* NOT_APPLICABLE, NO_APPLICABLE_RULES.
C3_StatusInVocabulary ==
    /\ \A i \in DOMAIN evaluations : evaluations[i].status \in Statuses
    /\ \A i \in DOMAIN report.evaluations : report.evaluations[i].status \in Statuses

\* C3 happens: a report whose evaluations carry a PASS, a FAIL and a REVIEW, the
\* REVIEW coming from a rule value float() rejects
C3_Witness ==
    /\ run = "reported"
    /\ {report.evaluations[i].status : i \in DOMAIN report.evaluations}
           = {"PASS", "FAIL", "REVIEW"}
    /\ \E i \in DOMAIN report.evaluations :
           /\ report.evaluations[i].status = "REVIEW"
           /\ report.evaluations[i].expected_value = Str
           /\ report.evaluations[i].notes = <<"could not parse">>

\* rate is exactly 100 x PASS / total, and 0 for an empty list, without a
\* division by zero
IsExactRate(rate, evals) ==
    /\ rate # ZeroDivisionError
    /\ IF evals = <<>> THEN rate.num = 0
       ELSE rate.num * Len(evals) = 100 * CountStatus(evals, "PASS") * rate.den

\* rate is 100 x PASS / total rounded to one decimal place (a number of tenths
\* at most 0.05 away from it), and 0 for an empty list, without a division by zero
IsRoundedRate(rate, evals) ==
    /\ rate # ZeroDivisionError
    /\ IF evals = <<>> THEN rate.num = 0
       ELSE LET diff == rate.num * Len(evals) - 1000 * CountStatus(evals, "PASS")
            IN  /\ rate.den = 10
                /\ 2 * (IF diff < 0 THEN -diff ELSE diff) <= Len(evals)

C5_WaterFeatureOnlyReview ==
    (call.fn = "water_feature" /\ result.kind # "raise") =>
        \/ result.kind = "none"
        \/ result.kind = "eval" /\ result.ev.status = "REVIEW"

\* C5 happens: a creek against a rule that names creeks and carries a numeric
\* value is evaluated
C5_Witness ==
    /\ call.fn = "water_feature"
    /\ call.component.feature_type = "creek"
    /\ "CREEK" \in call.rule.requirement
    /\ call.rule.value = Num(50)
    /\ result.kind = "eval"
    /\ result.ev.status = "REVIEW"

\* The measured value the rule of the call is compared with
MeasuredValue ==
    CASE call.fn = "room" ->
            IF "area" \in call.rule.attribute \/ "size" \in call.rule.attribute
            THEN call.component.area ELSE None
      [] call.fn = "setback"           -> call.component.distance
      [] call.fn = "geometric_setback" -> call.component.avg_distance
      [] call.fn = "opening"           -> call.component.width
      [] call.fn = "parking" ->
            IF "width" \in call.rule.attribute /\ call.component.width.k # "none"
            THEN call.component.width
            ELSE IF "length" \in call.rule.attribute THEN call.component.length
            ELSE None
      [] call.fn = "lot_info"          -> call.component.lot_area
      [] OTHER                         -> None

\* C6: for a room against an applicable rule whose attribute names area, and
\* for a setback against an applicable rule, whenever the measured value a and
\* the expected value e are both numeric (0 included) the evaluation has status
\* PASS if a >= e and FAIL if a < e, and actual_value is a.
C6_NumericComparisonDecides ==
    IF call.fn \in {"room", "setback", "geometric_setback"}
    THEN ( /\ result.kind = "eval"
           /\ call.fn = "room" => "area" \in call.rule.attribute
           /\ MeasuredValue.k = "num"
           /\ FloatOk(call.rule.value) )
         => /\ result.ev.status
                  = IF MeasuredValue.v >= call.rule.value.v THEN "PASS" ELSE "FAIL"
            /\ result.ev.actual_value = MeasuredValue
    ELSE TRUE

\* C7: a loop body of process_components that completes retrieval, rule lookup
\* and the relevance filter with no surviving candidate appends no evaluation
\* (no PASS, no FAIL, no entry at all) and leaves process_components running
\* for the next component.
C7_NoSurvivorNoEntry ==
    [][ ( /\ left' = left - 1
          /\ last'.raised_in \notin {"lexical", "lookup"}
          /\ last'.relevant = {} )
        => ( evaluations' = evaluations /\ run' = "running" ) ]_vars

\* C7 happens: the body of a component retrieved candidates, none survived
\* lookup and relevance, nothing was appended and a component is still left
C7_Witness ==
    /\ run = "running"
    /\ left > 0
    /\ last.retrieved
    /\ last.relevant = {}
    /\ last.raised_in = ""
    /\ last.appended = 0

\* The text fields of the component of the call that an evaluator dereferences
\* are strings (or absent), not null
WellFormed ==
    CASE call.fn = "room"     -> call.component.room_type # Null
      [] call.fn \in {"setback", "geometric_setback"} -> call.component.direction # Null
      [] call.fn = "opening"  -> call.component.location \notin {Null, "[]"}
      [] call.fn = "lot_info" -> call.component.boundary_dimensions # Null
      [] OTHER                -> TRUE

\* C8: for every evaluator (room, setback, opening, parking, lot info), when the
\* expected value of an applicable rule or the measured value of the component
\* is present but not numeric, the evaluator does not raise: it returns an
\* evaluation with status REVIEW and at least one note.
C8_NonNumericGivesReviewWithNote ==
    IF call.fn \in {"room", "setback", "geometric_setback", "opening", "parking",
                    "lot_info"}
    THEN ( /\ WellFormed
           /\ result.kind # "none"
           /\ call.rule.value.k = "str" \/ MeasuredValue.k = "str" )
         => /\ result.kind = "eval"
            /\ result.ev.status = "REVIEW"
            /\ result.ev.notes # <<>>
    ELSE TRUE

\* C9: a failing call in the semantic or in the lexical channel of a loop body
\* never leaves retrieval as an exception.
C9_ChannelFailureStaysInside ==
    (last.sem_down \/ last.lex_down) => last.raised_in \notin {"semantic", "lexical"}

\* C10: a failure of the evaluator on one component (a null field) does not
\* abort process_components.
C10_ComponentFailureDoesNotAbort ==
    last.raised_in = "evaluator" => run # "raised"

\* C11: when a rule-store credential (NEO4J_URI, NEO4J_USER, NEO4J_PASSWORD) is
\* missing, main fails before any component is retrieved or evaluated and
\* before an output document is built: it is at its start or has failed, and
\* no loop body ran, no evaluation, no cached embedding and no report exists.
C11_MissingCredentialIsFatal ==
    ~(Neo4jVars \subseteq env) =>
        /\ run \in {"start", "fatal"}
        /\ last = NoBody
        /\ evaluations = <<>>
        /\ embed_cache = {}
        /\ report = NoReport

\* C11 happens: main has failed with only NEO4J_PASSWORD missing, on a document
\* that holds components
C11_Witness ==
    /\ run = "fatal"
    /\ env = EnvVars \ {"NEO4J_PASSWORD"}
    /\ left > 0

\* C12: check_rule_relevance does not reject a candidate when the oracle is
\* missing or fails: without a client it returns (relevant, 0.5); when the
\* call or the handling of the reply raises it returns (relevant, 0.3) with
\* the error text as reasoning.
C12_RelevanceDefaultsToRelevant ==
    call.fn = "check_rule_relevance" =>
        /\ ~call.openai_client =>
               /\ result.verdict.relevant
               /\ result.verdict.confidence = 5000
        /\ (call.openai_client /\ call.oracle \in RaisingReplies) =>
               /\ result.verdict.relevant
               /\ result.verdict.confidence = 3000
               /\ result.verdict.reasoning = "LLM error"

\* C12 happens: with a client, the reply is braces json.loads rejects, and the
\* candidate is kept with confidence 0.3
C12_Witness ==
    /\ call.fn = "check_rule_relevance"
    /\ call.openai_client
    /\ call.oracle = "malformed"
    /\ result.verdict = [relevant |-> TRUE, confidence |-> 3000, reasoning |-> "LLM error"]

\* C14: the candidate list a loop body assembles (semantic candidates, then
\* lexical ones) holds no two candidates with the same rule id, whatever the
\* similarity index and the keyword search return.
C14_CandidatesHaveDistinctIds ==
    (call.fn = "retrieve" /\ result.kind = "candidates") =>
        \A i, j \in DOMAIN result.candidates :
            result.candidates[i].rule_id = result.candidates[j].rule_id => i = j

\* C13: every evaluation a loop body of process_components appends is for the
\* component of that body and for a rule whose detail was fetched from the rule
\* store and that check_rule_relevance judged relevant for it; a candidate
\* judged not relevant yields no evaluation.
C13_EvaluationsAreJudgedRelevant ==
    [][ left' = left - 1 =>
          \A i \in (Len(evaluations) + 1)..Len(evaluations') :
              /\ evaluations'[i].rule_id \in last'.relevant
              /\ evaluations'[i].rule_id \in StoreIds
              /\ evaluations'[i].component_type = last'.component_type ]_vars

\* C13 happens: with an oracle, a lot for which only R1 was judged relevant got
\* exactly one evaluation, for R1
C13_Witness ==
    /\ clients.openai
    /\ last.component_type = "lot_info"
    /\ last.relevant = {"R1"}
    /\ last.appended = 1
    /\ evaluations[Len(evaluations)].rule_id = "R1"

\* The components document holds lot information on one of its sheets
HasLotInfo == \E n \in DOMAIN components_data : components_data[n].lot_info

\* C15: when the components document holds lot information (on any sheet), the
\* domain filter removes every evaluation whose requirement, topic or a zone
\* holds a phrase of the building blocklist and no other evaluation (every
\* other rule id is still there after deduplication); without lot information
\* it removes nothing.
C15_DomainFilterOnLotInfo ==
    rpc = "rendered" =>
        /\ HasLotInfo => \A j \in DOMAIN retained : ~IsBuildingSpecific(retained[j])
        /\ \A i \in DOMAIN report.evaluations :
               (~HasLotInfo \/ ~IsBuildingSpecific(report.evaluations[i]))
                   => \E j \in DOMAIN retained :
                          retained[j].rule_id = report.evaluations[i].rule_id

\* C16: after filtering and deduplication in build_enhanced_report, the summary
\* the report sections read is counted over the retained evaluations:
\* total_evaluations is their number and status_breakdown[s] the number of
\* them with status s (and no other status is listed); the summary of the
\* compliance file is not used.
C16_SummaryRecomputed ==
    rpc = "rendered" =>
        LET summary == compliance_data.summary
            held    == {retained[j].status : j \in DOMAIN retained}
        IN  /\ summary.total_evaluations = Len(retained)
            /\ DOMAIN summary.status_breakdown = held
            /\ \A st \in held :
                   summary.status_breakdown[st]
                       = Cardinality({j \in DOMAIN retained : retained[j].status = st})

\* C16 happens: deduplication removed an evaluation, so that the summary of the
\* compliance file (3 evaluations) differs from the one the sections read (2)
C16_Witness ==
    /\ rpc = "rendered"
    /\ report.summary.total_evaluations = 3
    /\ Len(retained) = 2
    /\ compliance_data.summary.total_evaluations = 2
    /\ compliance_data.summary.status_breakdown # report.summary.status_breakdown

\* The per-sheet arrays of the input document
SheetArrays == {"room", "setback", "geometric_setback", "opening", "parking",
                "lot_info", "water_feature"}

\* C19: process_components retrieves rules for the components of every
\* per-sheet array (rooms, setbacks, geometric_setbacks, openings, parking,
\* lot_info, water_features): for each component the walk passes, the rule
\* search was called, an annotated setback under `setbacks` included.
C19_EveryArrayIsProcessed ==
    last.component_type \in SheetArrays => last.searched

\* C17: within one run of process_components, a loop body whose query string
\* the embedding generator has embedded earlier in the run makes no call to the
\* generator (and the string stays cached); the run starts with an empty
\* cache, and the cache never holds a string that was not embedded in this run.
C17_EmbeddingCachedPerRun ==
    [][ /\ (left' = left - 1 /\ calls'.text \in calls.embedded_ok)
            => (~calls'.generator /\ calls'.text \in embed_cache')
        /\ (run = "start" /\ run' = "running") => embed_cache' = {}
        /\ run' = "running" => embed_cache' \subseteq calls'.embedded_ok ]_vars

\* C17 happens: the process held a cache of an earlier run, this run embedded
\* the query string of a room, and the loop body of a later room with the same
\* string got its candidates without a call to the generator
C17_Witness ==
    /\ run = "running"
    /\ last.component_type = "room"
    /\ ~last.sem_down
    /\ calls.text \in calls.embedded_ok
    /\ ~calls.generator
    /\ calls.text \in embed_cache

\* C18: within one run of process_components the details of a rule id are
\* requested from the rule store at most once, however many components
\* retrieve the rule.
C18_RuleFetchedOnce ==
    calls.refetched = {}

\* Step 2 of run_complicheck has run
Step2Ran ==
    \/ v2.pc \in {"step3", "step4"}
    \/ v2.pc = "returned" /\ (v2.success \/ v2.stopped_at \in {3, 4})

\* Enrichment was enabled and could not run or failed: no API key, no
\* enrichment script, or the enrichment command failed
EnrichmentFellBack ==
    /\ v2.enable_enrichment
    /\ Step2Ran
    /\ ~v2.api_key \/ ~v2.script_exists \/ v2.enrich_command = "failed"

\* C20: when enrichment is enabled but cannot run or fails, run_complicheck
\* goes on: it never stops at step 2, the working file is the unenriched
\* components file, and the compliance check and the report generator, once
\* they ran, read that file.
C20_EnrichmentFailureFallsBack ==
    /\ v2.stopped_at # 2
    /\ EnrichmentFellBack
         => /\ ~v2.enriched
            /\ v2.working_components_file = ComponentsFile
            /\ v2.check_input \in {"", ComponentsFile}
            /\ v2.report_input \in {"", ComponentsFile}
            /\ v2.pc \in {"step4", "returned"} => v2.check_input = ComponentsFile
            /\ v2.pc = "returned" /\ v2.success => v2.report_input = ComponentsFile

\* C20 happens: the enrichment command failed and the run ended in success
\* with the check and the report made from the unenriched components file
C20_Witness ==
    /\ EnrichmentFellBack
    /\ v2.enrich_command = "failed"
    /\ v2.pc = "returned"
    /\ v2.success
    /\ v2.check_input = ComponentsFile
    /\ v2.report_input = ComponentsFile

\* C21: filter_and_deduplicate_evaluations only selects or discards whole
\* evaluations: every evaluation of its output is, field for field, an
\* evaluation of its input, and the input list (the evaluations of the
\* compliance document) is as it was.
C21_FilterOnlySelects ==
    rpc = "rendered" =>
        /\ \A j \in DOMAIN retained :
               \E i \in DOMAIN report.evaluations : retained[j] = report.evaluations[i]
        /\ compliance_data.evaluations = report.evaluations

\* C21 happens: no domain filter applies, deduplication dropped an evaluation
\* and kept one whose topic, notes and zones are not the empty ones
C21_Witness ==
    /\ rpc = "rendered"
    /\ ~IsSitePlan(components_data)
    /\ Len(retained) = 2
    /\ Len(report.evaluations) = 3
    /\ \E j \in DOMAIN retained :
           /\ retained[j].topic = "Building Height"
           /\ retained[j].status = "REVIEW"

\* The calls of SpecEval that are calls of a component evaluator
EvaluatorCalls == {"room", "setback", "geometric_setback", "opening", "parking",
                   "lot_info", "water_feature"}

\* C22: evaluate_setback_component applies a rule to a setback whose direction
\* contains "front" if and only if the requirement of the rule contains FRONT
\* or contains neither SIDE nor REAR; a front setback is never evaluated
\* against a rule that mentions SIDE or REAR but not FRONT.
C22_FrontSetbackGate ==
    (call.fn \in {"setback", "geometric_setback"} /\ call.component.direction = "front")
        => ( result.kind = "eval"
               <=> \/ "FRONT" \in call.rule.requirement
                   \/ /\ "SIDE" \notin call.rule.requirement
                      /\ "REAR" \notin call.rule.requirement )

\* C23: evaluate_opening_component returns nothing for an opening that is not
\* an egress opening when the requirement of the rule mentions EGRESS or EXIT.
\* (A call that raises returns nothing.)
C23_EgressRuleSkipsNonEgress ==
    ( /\ call.fn = "opening"
      /\ result.kind # "raise"
      /\ ~call.component.is_egress
      /\ "EGRESS" \in call.rule.requirement \/ "EXIT" \in call.rule.requirement )
        => result.kind = "none"

\* C24: evaluate_parking_component returns nothing for a parking space that is
\* not accessible when the requirement of the rule mentions ACCESSIBLE or ADA.
C24_AccessibleRuleSkipsOthers ==
    ( /\ call.fn = "parking"
      /\ ~call.component.accessible
      /\ "ACCESSIBLE" \in call.rule.requirement \/ "ADA" \in call.rule.requirement )
        => result.kind = "none"

\* The rule of the call is applicable to lot information: its attribute is
\* area-related or its requirement contains SIZE
LotRuleApplies == "area" \in call.rule.attribute \/ "SIZE" \in call.rule.requirement

\* C25: evaluate_lot_info_component returns nothing for a rule that is not
\* applicable to lot information; for an applicable rule it returns an
\* evaluation, which is REVIEW with the note that the lot area is not
\* specified exactly when the plan gives no lot area. (A call that raises
\* returns nothing.)
C25_LotRuleApplicability ==
    (call.fn = "lot_info" /\ result.kind # "raise") =>
        /\ ~LotRuleApplies => result.kind = "none"
        /\ LotRuleApplies =>
               /\ result.kind = "eval"
               /\ ( /\ result.ev.status = "REVIEW"
                    /\ result.ev.notes = <<"lot area not specified">> )
                      <=> call.component.lot_area = None

\* C26: every evaluation with status REVIEW that an evaluator returns carries
\* at least one note.
C26_ReviewCarriesNote ==
    ( /\ call.fn \in EvaluatorCalls
      /\ result.kind = "eval"
      /\ result.ev.status = "REVIEW" )
        => result.ev.notes # <<>>

\* The default confidence of the evaluator of the call
TypeDefault ==
    CASE call.fn = "room"          -> 5000
      [] call.fn = "water_feature" -> 5000
      [] call.fn = "opening"       -> 6000
      [] call.fn = "parking"       -> 6000
      [] call.fn = "lot_info"      -> 6000
      [] OTHER                     -> 7000

\* C27: the confidence of an evaluation is the similarity score of the
\* candidate whenever the candidate carries a score (0.0 included), and the
\* default of the component type (0.5 room and water feature, 0.6 opening,
\* parking and lot info, 0.7 setback) only when the candidate carries none.
C27_ConfidenceIsScoreOrDefault ==
    (call.fn \in EvaluatorCalls /\ result.kind = "eval") =>
        result.ev.confidence
            = IF call.candidate.score.k = "num" THEN call.candidate.score.v
              ELSE TypeDefault

\* C28: for a site-plan components document, filter_and_deduplicate_evaluations
\* completes without raising on every evaluation list of a compliance
\* document, evaluations whose topic is null included.
C28_SitePlanFilterCompletes ==
    (IsSitePlan(components_data) /\ run = "reported") => rpc # "raised"

\* C29: filter_and_deduplicate_evaluations treats the evaluations that carry no
\* rule_id as sharing one rule id: at most one of them is in its output (and
\* one is, if any passed the domain filter), however many components they
\* concern.
C29_NoRuleIdSharesOneKey ==
    rpc = "rendered" =>
        LET unkeyed(evals) == {i \in DOMAIN evals : evals[i].rule_id = Absent}
        IN  /\ Cardinality(unkeyed(retained)) <= 1
            /\ unkeyed(Filtered(report.evaluations, components_data)) # {}
                   => Cardinality(unkeyed(retained)) = 1

\* C29 happens: three records of the Bedrock checker about two components, no
\* domain filter, and one evaluation left
C29_Witness ==
    /\ rpc = "rendered"
    /\ ~IsSitePlan(components_data)
    /\ Len(report.evaluations) = 3
    /\ \A i \in DOMAIN report.evaluations : report.evaluations[i].rule_id = Absent
    /\ Cardinality({report.evaluations[i].component_id : i \in DOMAIN report.evaluations}) = 2
    /\ Len(retained) = 1

\* C30: after POST /process is accepted, the background task always ends, and
\* it ends with the pre-check in status 'completed' (progress 100) or 'failed'
\* (progress 0): 'completed' whenever every run_complicheck returned, whatever
\* the status of the per-plan results, and 'failed' only when the task raised.
C30_TaskEndsCompletedOrFailed ==
    /\ [](task.pc = "ended" =>
            IF task.raised
            THEN task.status = "failed" /\ task.progress = 0
            ELSE /\ task.status = "completed" /\ task.progress = 100
                 /\ DOMAIN task.results = task.files)
    /\ (task.pc = "queued") ~> (task.pc = "ended")

\* C30 happens: the task ended without raising, the site plan timed out, the
\* run on the building plan failed, and the pre-check is completed
C30_Witness ==
    /\ task.pc = "ended"
    /\ ~task.raised
    /\ task.results = [plan \in Plans |->
                         IF plan = "site_plan" THEN "timeout" ELSE "failed"]
    /\ precheck.status = "completed"
    /\ precheck.progress = 100
    /\ precheck.results = task.results

=============================================================================
